---- MODULE Spec2Model ----
(***************************************************************************)
(* Model of kr_iphone17pm_silver512_monitor.py: the polling loop of main() *)
(* with fetch_availability, the transition detection over last_flags,      *)
(* bark_send, ensure_log / append_log and the stop_signal handler.         *)
(***************************************************************************)
EXTENDS Integers, Sequences, FiniteSets, TLC

(* ------------------------------ bounds --------------------------------- *)
\* iterations of the while loop explored under Spec
MaxCycles == 2
\* stores in one fetched payload under Spec
MaxStores == 2
\* iterations of the while loop explored under SpecOne (one store, listed
\* once per payload)
MaxCyclesOne == 5
\* iterations of the while loop explored under SpecLive
MaxCyclesLive == 2
\* iterations of the while loop and records in one payload under SpecHist
MaxCyclesHist == 2
MaxStoresHist == 2
\* iterations of the while loop and records in one payload under SpecDup
MaxCyclesDup == 2
MaxStoresDup == 3
\* iterations of the while loop under SpecGap
MaxCyclesGap == 3
\* iterations of the while loop and stores in one payload under SpecAny
MaxCyclesAny == 2
MaxStoresAny == 2

(* ------------------------- program constants --------------------------- *)
POLL_INTERVAL_MIN == 10
POLL_INTERVAL_MAX == 15
SKU == "MFYQ4KH/A"

\* Python's None
None == "None"

(* ------------------------------ inputs --------------------------------- *)
\* body.stores[] entries of the retailer's response.  pa is the value of
\* partsAvailability[SKU].pickupDisplay, or "missing" when the store carries
\* no partsAvailability sub-object for the SKU.
StoreIdents ==
    { [storeNumber |-> "R764", storeName |-> "Hongdae",   city |-> "Seoul"],
      [storeNumber |-> None,   storeName |-> "Garosugil", city |-> "Seoul"] }

PartsStates == {"missing", "available", "unavailable", "ineligible"}

RawStores ==
    { [storeNumber |-> s.storeNumber, storeName |-> s.storeName,
       city |-> s.city, pa |-> p] : s \in StoreIdents, p \in PartsStates }

\* the stores of the payloads under Spec: both idents, in or out of stock
CoreStores == { r \in RawStores : r.pa \in {"available", "unavailable"} }

RECURSIVE SeqsUpTo(_, _)
SeqsUpTo(S, n) ==
    IF n = 0 THEN { <<>> }
    ELSE LET shorter == SeqsUpTo(S, n - 1)
         IN  shorter \cup { Append(q, x) : q \in { t \in shorter : Len(t) = n - 1 }, x \in S }

\* the payloads the fetch may return under Spec
Payloads == SeqsUpTo(CoreStores, MaxStores)

\* the payloads under SpecAny: both idents, with the sub-object missing, in
\* stock, or with another status string
AnyStores == { r \in RawStores : r.pa \in {"missing", "available", "ineligible"} }
AnyPayloads == SeqsUpTo(AnyStores, MaxStoresAny)

\* the payloads under SpecOne: the one store R764, listed once, in or out
\* of stock
OneStore == { r \in CoreStores : r.storeNumber = "R764" }
OnePayloads == { <<r>> : r \in OneStore }

\* the payloads under SpecHist: the one store R764, listed once or more
HistPayloads == SeqsUpTo(OneStore, MaxStoresHist)

\* the payloads under SpecDup: the one store R764, listed up to
\* MaxStoresDup times
DupPayloads == SeqsUpTo(OneStore, MaxStoresDup)

\* exceptions fetch_availability can raise
FetchErrors == {"http", "transport", "json", "shape"}

\* what the push endpoint can answer to one POST
BarkReplies == {"ok", "http", "payload", "exception"}

\* the answers explored under Spec: delivered, refused with an HTTP status,
\* not reached
CoreReplies == {"ok", "http", "exception"}

\* Bark configuration: (BARK_DEVICE_KEY set, BARK_PUSH_ENDPOINT set)
BarkConfigs == { [key |-> k, endpoint |-> e] : k \in BOOLEAN, e \in BOOLEAN }

\* the configuration explored under Spec: a device key, no override
CoreConfigs == { c \in BarkConfigs : c.key /\ ~c.endpoint }

\* the lengths time.sleep is given: the two ends of random.uniform's range
Delays == { POLL_INTERVAL_MIN, POLL_INTERVAL_MAX }

(* ------------------------------- state --------------------------------- *)
VARIABLES
    pc,          \* position of main(): ensure, top, fetch, detect, append, sleep, done
    stop,        \* stop["flag"]
    bark,        \* the Bark configuration read from the environment
    last_flags,  \* dict sid -> bool
    res,         \* result of fetch_availability in this iteration
    i,           \* index of the for loop over res (1-based)
    avail_rows,  \* rows collected in this iteration
    csv,         \* the log file: [exists, headers, rows]
    pushes,      \* observed calls of bark_send:
                 \*   [ts, idx, sid, title, endpoint, delivered]
    trail,       \* observed outcome of each iteration, one entry per iteration
    console,     \* lines printed by the loop body in the current iteration
    cycle,       \* iterations started (also the timestamp of now_strs)
    slept,       \* duration of the sleep of the current iteration, 0 before it
    sleeps,      \* calls of time.sleep that have returned
    flags0,      \* last_flags as it was when the current iteration started
    raised       \* the exception the try block raised in the current
                 \* iteration, "" when none

vars == << pc, stop, bark, last_flags, res, i, avail_rows, csv, pushes,
           trail, console, cycle, slept, sleeps, flags0, raised >>

(* ------------------------------ helpers --------------------------------- *)
\* fetch_availability: one out entry per store
ParseStore(s) ==
    [ storeNumber   |-> s.storeNumber,
      storeName     |-> s.storeName,
      city          |-> s.city,
      pickupDisplay |-> IF s.pa = "missing" THEN None ELSE s.pa,
      quote         |-> "" ]

ParsePayload(raw) == [ k \in 1..Len(raw) |-> ParseStore(raw[k]) ]

\* faulty variant: avail = r.get("pickupDisplay") != "unavailable"
IsAvailLoose(r) == r.pickupDisplay # "unavailable"

\* avail = r.get("pickupDisplay") == "available"
IsAvail(r) == r.pickupDisplay = "available"

\* sid = r.get("storeNumber") or r.get("storeName")
Sid(r) == IF r.storeNumber # None /\ r.storeNumber # ""
          THEN r.storeNumber ELSE r.storeName

\* faulty variant: last_flags.get(sid, True), an unknown store counts as
\* already notified
FlagGetDefaultTrue(flags, sid) == IF sid \in DOMAIN flags THEN flags[sid] ELSE TRUE

\* last_flags.get(sid): None (falsy) when the key is absent
FlagGet(flags, sid) == IF sid \in DOMAIN flags THEN flags[sid] ELSE FALSE

\* faulty variant: last_flags[sid] = not avail
FlagSetInverted(flags, sid, avail) ==
    [ s \in (DOMAIN flags) \cup {sid} |-> IF s = sid THEN ~avail ELSE flags[s] ]

\* faulty variant: last_flags[sid] = False, the flag is never raised
FlagSetNever(flags, sid, avail) ==
    [ s \in (DOMAIN flags) \cup {sid} |-> IF s = sid THEN FALSE ELSE flags[s] ]

\* faulty variant: the flag is written inside "if avail" only, so it is never
\* cleared
FlagSetOnlyTrue(flags, sid, avail) ==
    IF avail THEN [ s \in (DOMAIN flags) \cup {sid} |-> IF s = sid THEN TRUE ELSE flags[s] ]
    ELSE flags

\* last_flags[sid] = avail
FlagSet(flags, sid, avail) ==
    [ s \in (DOMAIN flags) \cup {sid} |-> IF s = sid THEN avail ELSE flags[s] ]

\* what an iteration that raised nothing showed: the statuses fetched
Seen(rs) == [ k \in 1..Len(rs) |-> rs[k].pickupDisplay ]

\* the trail entry of an iteration that raised
Raised == << "error" >>

\* faulty variant: the push is not guarded by the flag
ShouldPushAlways(flags, r) == IsAvail(r)

\* if avail: ... if not last_flags.get(sid): bark_send(...)
ShouldPush(flags, r) == IsAvail(r) /\ ~FlagGet(flags, Sid(r))

\* the dict appended to avail_rows
LogRow(ts, r) ==
    [ ts_utc |-> ts, ts_kr |-> ts, sku |-> SKU,
      storeName |-> r.storeName, storeNumber |-> r.storeNumber,
      city |-> r.city, pickupDisplay |-> r.pickupDisplay, quote |-> r.quote ]

\* faulty variant: avail_rows.insert(0, {...}), the newest row first
NextRowsPrepend(rows, ts, r) == IF IsAvail(r) THEN << LogRow(ts, r) >> \o rows ELSE rows

\* if avail: avail_rows.append({...})
NextRows(rows, ts, r) == IF IsAvail(r) THEN Append(rows, LogRow(ts, r)) ELSE rows

\* faulty variant: to_csv(mode="w"), the file is written anew
WrittenTruncating(file, rows) ==
    IF rows = << >> THEN file ELSE [file EXCEPT !.rows = rows]

\* append_log(rows): nothing for no rows, else to_csv(mode="a", header=False)
Written(file, rows) ==
    IF rows = << >> THEN file ELSE [file EXCEPT !.rows = file.rows \o rows]

\* faulty variant: bark_send lets a failure escape, main() catches it and
\* leaves the for loop
AfterPushEscapes(result) == IF result \in {"http", "payload", "exception"} THEN "sleep" ELSE "detect"

\* where main() continues after bark_send: its try/except swallows every
\* failure, so the for loop goes on
AfterPush(result) == "detect"

\* faulty variant: the sleep stands inside the try block and is skipped when
\* the iteration raises
AfterRaiseNoSleep == "top"

\* faulty variant: the except clause fetches again at once
AfterRaiseRetry == "fetch"

\* faulty variant: no except clause, the exception ends main()
AfterRaiseFatal == "done"

\* where main() continues after an except clause: the sleep that follows
\* the try statement
AfterRaise == "sleep"

\* faulty variant: the override is tested before the device key
EndpointOverrideFirst(cfg) ==
    IF cfg.endpoint THEN "override"
    ELSE IF cfg.key THEN "base/key"
    ELSE ""

\* endpoint resolution of bark_send
Endpoint(cfg) ==
    IF cfg.key THEN "base/key"
    ELSE IF cfg.endpoint THEN "override"
    ELSE ""

\* results one call of bark_send can have under a configuration
BarkResults(cfg, replies) == IF Endpoint(cfg) = "" THEN {"skipped"} ELSE replies

\* the line bark_send prints for a result, as a sequence of 0 or 1 lines
BarkLines(result) ==
    CASE result = "skipped"   -> << "[INFO] Bark not configured" >>
      [] result = "http"      -> << "[WARN] Bark push failed HTTP" >>
      [] result = "payload"   -> << "[WARN] Bark returned non-OK payload" >>
      [] result = "exception" -> << "[WARN] Bark push exception" >>
      [] OTHER                -> << >>

\* faulty variant: the RequestException clause prints nothing (pass)
FetchErrorLinesSilent(kind) ==
    CASE kind = "http"      -> { << "[DEBUG] HTTP", "[WARN] HTTP error" >> }
      [] kind = "transport" -> { << >> }
      [] kind = "json"      -> { << "[DEBUG] HTTP", "[ERROR] JSON parse failed" >>,
                                 << "[DEBUG] HTTP", "[ERROR] JSON parse failed",
                                    "[WARN] Unknown exception" >>,
                                 << "[DEBUG] HTTP" >>,
                                 << "[DEBUG] HTTP", "[WARN] Unknown exception" >> }
      [] OTHER              -> { << "[DEBUG] HTTP", "[WARN] Unknown exception" >> }

\* the lines printed for an exception of fetch_availability, by
\* fetch_availability and by the except clause of main() that catches it.
\* requests.HTTPError is raised by raise_for_status; a transport failure is
\* a requests.RequestException; a body of another shape than a dict of dicts
\* raises AttributeError.  For a body that is no JSON, r.json() raises
\* requests' JSONDecodeError, a RequestException since requests 2.27 and a
\* plain ValueError before, and a subclass of json.JSONDecodeError (which
\* fetch_availability catches to print its "[ERROR]" line) unless requests
\* decodes with simplejson: the lines depend on the packages installed.
FetchErrorLines(kind) ==
    CASE kind = "http"      -> { << "[DEBUG] HTTP", "[WARN] HTTP error" >> }
      [] kind = "transport" -> { << "[WARN] Network exception" >> }
      [] kind = "json"      -> { << "[DEBUG] HTTP", "[ERROR] JSON parse failed",
                                    "[WARN] Network exception" >>,
                                 << "[DEBUG] HTTP", "[ERROR] JSON parse failed",
                                    "[WARN] Unknown exception" >>,
                                 << "[DEBUG] HTTP", "[WARN] Network exception" >>,
                                 << "[DEBUG] HTTP", "[WARN] Unknown exception" >> }
      [] OTHER              -> { << "[DEBUG] HTTP", "[WARN] Unknown exception" >> }

\* the payloads under SpecGap: those of Payloads that list no store twice
\* (none, one or both of the stores, in either order)
GapPayloads ==
    { raw \in Payloads :
        \A j, k \in 1..Len(raw) :
            Sid(ParseStore(raw[j])) = Sid(ParseStore(raw[k])) => j = k }

(* ------------------------------- Init ----------------------------------- *)
\* the log file before the process starts: absent, or left by an earlier run
OldRow == [ ts_utc |-> 0, ts_kr |-> 0, sku |-> SKU, storeName |-> "Hongdae",
            storeNumber |-> "R764", city |-> "Seoul",
            pickupDisplay |-> "available", quote |-> "" ]

InitialFiles == { [exists |-> FALSE, headers |-> 0, rows |-> << >>],
                  [exists |-> TRUE,  headers |-> 1, rows |-> << OldRow >>] }

\* faulty variant: the header is written without the os.path.exists test
EnsuredAnew(file) == [exists |-> TRUE, headers |-> 1, rows |-> << >>]

\* ensure_log() applied to a log file: a file with the header line and no row
\* is written if none exists
Ensured(file) ==
    IF file.exists THEN file
    ELSE [exists |-> TRUE, headers |-> 1, rows |-> << >>]

InitWith(configs, files) ==
    /\ pc = "ensure"
    /\ stop = FALSE
    /\ bark \in configs
    /\ last_flags = << >>
    /\ res = << >>
    /\ i = 1
    /\ avail_rows = << >>
    /\ csv \in files
    /\ pushes = << >>
    /\ trail = << >>
    /\ console = << >>
    /\ cycle = 0
    /\ slept = 0
    /\ sleeps = 0
    /\ flags0 = << >>
    /\ raised = ""

\* under Spec the process starts without a log file
FreshFiles == { f \in InitialFiles : ~f.exists }

Init == InitWith(CoreConfigs, FreshFiles)

InitOne == InitWith(BarkConfigs, InitialFiles)

(* ------------------------------ actions --------------------------------- *)
\* ensure_log(), then the set-up of main() up to the while loop
EnsureLog ==
    /\ pc = "ensure"
    /\ csv' = Ensured(csv)
    /\ pc' = "top"
    /\ UNCHANGED << stop, bark, last_flags, res, i, avail_rows, pushes, trail,
                    console, cycle, slept, sleeps, flags0, raised >>

\* faulty variant: the handler ends the process at once (sys.exit)
StopSignalKills ==
    /\ pc \notin {"ensure", "done"}
    /\ stop' = TRUE
    /\ pc' = "done"
    /\ UNCHANGED << bark, last_flags, res, i, avail_rows, csv, pushes,
                    trail, console, cycle, slept, sleeps, flags0, raised >>

\* stop_signal: SIGINT or SIGTERM delivered while main() runs; the flag is
\* set and the "[INFO] Interrupt received" line printed
StopSignal ==
    /\ pc \notin {"ensure", "done"}
    /\ stop' = TRUE
    /\ UNCHANGED << pc, bark, last_flags, res, i, avail_rows, csv, pushes,
                    trail, console, cycle, slept, sleeps, flags0, raised >>

\* while not stop["flag"]: enter the body, ts_utc, ts_kr = now_strs().
\* pushes and trail are observations: with keep they cover the whole run,
\* without it the current iteration only.
LoopEnter(maxc, keep) ==
    /\ pc = "top"
    /\ ~stop
    /\ cycle < maxc
    /\ cycle' = cycle + 1
    /\ pc' = "fetch"
    /\ res' = << >>
    /\ i' = 1
    /\ avail_rows' = << >>
    /\ console' = << >>
    /\ slept' = 0
    /\ flags0' = last_flags
    /\ raised' = ""
    /\ pushes' = IF keep THEN pushes ELSE << >>
    /\ trail' = IF keep THEN trail ELSE << >>
    /\ UNCHANGED << stop, bark, last_flags, csv, sleeps >>

\* faulty variant: the loop tests a flag the handler never sets
LoopExitNever ==
    /\ pc = "top"
    /\ stop
    /\ FALSE
    /\ UNCHANGED vars

\* while not stop["flag"]: leave the loop, log("Exit. CSV log at:", ...)
LoopExit ==
    /\ pc = "top"
    /\ stop
    /\ pc' = "done"
    /\ console' = Append(console, "Exit. CSV log at")
    /\ UNCHANGED << stop, bark, last_flags, res, i, avail_rows, csv, pushes,
                    trail, cycle, slept, sleeps, flags0, raised >>

\* res = fetch_availability(session) returns; the brief line is printed
FetchOK(raw) ==
    /\ pc = "fetch"
    /\ res' = ParsePayload(raw)
    /\ i' = 1
    /\ avail_rows' = << >>
    /\ console' = console \o << "[DEBUG] HTTP", "brief" >>
    /\ trail' = Append(trail, Seen(ParsePayload(raw)))
    /\ pc' = "detect"
    /\ UNCHANGED << stop, bark, last_flags, csv, pushes, cycle, slept, sleeps,
                    flags0, raised >>

\* faulty variant: the except clauses also empty last_flags
FetchFailForgets(kind) ==
    /\ pc = "fetch"
    /\ \E lines \in FetchErrorLines(kind) : console' = console \o lines
    /\ trail' = Append(trail, Raised)
    /\ raised' = kind
    /\ last_flags' = << >>
    /\ pc' = AfterRaise
    /\ UNCHANGED << stop, bark, res, i, avail_rows, csv, pushes,
                    cycle, slept, sleeps, flags0 >>

\* fetch_availability raises; the except clauses of main() print one line
FetchFail(kind) ==
    /\ pc = "fetch"
    /\ \E lines \in FetchErrorLines(kind) : console' = console \o lines
    /\ trail' = Append(trail, Raised)
    /\ raised' = kind
    /\ pc' = AfterRaise
    /\ UNCHANGED << stop, bark, last_flags, res, i, avail_rows, csv, pushes,
                    cycle, slept, sleeps, flags0 >>

\* one pass of "for r in res", bark_send included
DetectStep(replies) ==
    /\ pc = "detect"
    /\ i <= Len(res)
    /\ LET r     == res[i]
           avail == IsAvail(r)
           sid   == Sid(r)
       IN  /\ avail_rows' = NextRows(avail_rows, cycle, r)
           /\ IF ShouldPush(last_flags, r)
              THEN \E result \in BarkResults(bark, replies) :
                      /\ pushes' = Append(pushes,
                            [ ts |-> cycle, idx |-> i, sid |-> sid,
                              title |-> r.storeName,
                              endpoint |-> Endpoint(bark),
                              delivered |-> (result = "ok") ])
                      /\ console' = console \o BarkLines(result)
                      /\ pc' = AfterPush(result)
              ELSE UNCHANGED << pc, pushes, console >>
           /\ last_flags' = FlagSet(last_flags, sid, avail)
    /\ i' = i + 1
    /\ UNCHANGED << stop, bark, res, csv, trail, cycle, slept, sleeps, flags0,
                    raised >>

\* append_log(avail_rows) returns
AppendLog ==
    /\ pc = "detect"
    /\ i > Len(res)
    /\ csv' = Written(csv, avail_rows)
    /\ pc' = "sleep"
    /\ UNCHANGED << stop, bark, last_flags, res, i, avail_rows, pushes, trail,
                    console, cycle, slept, sleeps, flags0, raised >>

\* append_log(avail_rows) raises (the file cannot be written)
AppendFail ==
    /\ pc = "detect"
    /\ i > Len(res)
    /\ avail_rows # << >>
    /\ console' = Append(console, "[WARN] Unknown exception")
    /\ trail' = [trail EXCEPT ![Len(trail)] = Raised]
    /\ raised' = "append"
    /\ pc' = AfterRaise
    /\ UNCHANGED << stop, bark, last_flags, res, i, avail_rows, csv, pushes,
                    cycle, slept, sleeps, flags0 >>

\* time.sleep(random.uniform(POLL_INTERVAL_MIN, POLL_INTERVAL_MAX))
Sleep ==
    /\ pc = "sleep"
    /\ \E d \in Delays : slept' = d
    /\ sleeps' = sleeps + 1
    /\ pc' = "top"
    /\ UNCHANGED << stop, bark, last_flags, res, i, avail_rows, csv, pushes,
                    trail, console, cycle, flags0, raised >>

Next ==
    \/ EnsureLog
    \/ StopSignal
    \/ LoopEnter(MaxCycles, FALSE)
    \/ LoopExit
    \/ \E raw \in Payloads : FetchOK(raw)
    \/ \E kind \in FetchErrors : FetchFail(kind)
    \/ DetectStep(CoreReplies)
    \/ AppendLog
    \/ AppendFail
    \/ Sleep

Spec == Init /\ [][Next]_vars

NextOne ==
    \/ EnsureLog
    \/ StopSignal
    \/ LoopEnter(MaxCyclesOne, TRUE)
    \/ LoopExit
    \/ \E raw \in OnePayloads : FetchOK(raw)
    \/ \E kind \in FetchErrors : FetchFail(kind)
    \/ DetectStep(BarkReplies)
    \/ AppendLog
    \/ AppendFail
    \/ Sleep

SpecOne == InitOne /\ [][NextOne]_vars

\* the loop with the whole run's calls of bark_send and readings on
\* record, over payloads that list the one store once or more; the log
\* file can be written
NextHist ==
    \/ EnsureLog
    \/ StopSignal
    \/ LoopEnter(MaxCyclesHist, TRUE)
    \/ LoopExit
    \/ \E raw \in HistPayloads : FetchOK(raw)
    \/ \E kind \in FetchErrors : FetchFail(kind)
    \/ DetectStep({"ok", "exception"})
    \/ AppendLog
    \/ Sleep

SpecHist == Init /\ [][NextHist]_vars

\* the loop with the whole run's calls of bark_send and readings on
\* record, over payloads that list each store at most once; each push is
\* delivered and the log file can be written
NextGap ==
    \/ EnsureLog
    \/ StopSignal
    \/ LoopEnter(MaxCyclesGap, TRUE)
    \/ LoopExit
    \/ \E raw \in GapPayloads : FetchOK(raw)
    \/ \E kind \in FetchErrors : FetchFail(kind)
    \/ DetectStep({"ok"})
    \/ AppendLog
    \/ Sleep

SpecGap == Init /\ [][NextGap]_vars

\* the loop over payloads that list the one store several times
NextDup ==
    \/ EnsureLog
    \/ StopSignal
    \/ LoopEnter(MaxCyclesDup, FALSE)
    \/ LoopExit
    \/ \E raw \in DupPayloads : FetchOK(raw)
    \/ \E kind \in FetchErrors : FetchFail(kind)
    \/ DetectStep(CoreReplies)
    \/ AppendLog
    \/ AppendFail
    \/ Sleep

SpecDup == Init /\ [][NextDup]_vars

\* the loop over payloads of every status; each push is delivered
NextAny ==
    \/ EnsureLog
    \/ StopSignal
    \/ LoopEnter(MaxCyclesAny, FALSE)
    \/ LoopExit
    \/ \E raw \in AnyPayloads : FetchOK(raw)
    \/ \E kind \in FetchErrors : FetchFail(kind)
    \/ DetectStep({"ok"})
    \/ AppendLog
    \/ AppendFail
    \/ Sleep

SpecAny == Init /\ [][NextAny]_vars

\* the steps of main() inside the loop and out of it: fetch, bark_send and
\* sleep each return, being bounded by a timeout or a finite delay
Returns ==
    \/ LoopExit
    \/ \E raw \in OnePayloads : FetchOK(raw)
    \/ \E kind \in FetchErrors : FetchFail(kind)
    \/ DetectStep(BarkReplies)
    \/ AppendLog
    \/ AppendFail
    \/ Sleep

NextLive ==
    \/ EnsureLog
    \/ StopSignal
    \/ LoopEnter(MaxCyclesLive, TRUE)
    \/ Returns

SpecLive == InitOne /\ [][NextLive]_vars /\ WF_vars(Returns)

(* ======================= properties of the program ======================= *)
Range(q) == { q[k] : k \in DOMAIN q }

Max(S) == CHOOSE x \in S : \A y \in S : y <= x

\* every location identifier a payload can carry
AllSids == { Sid(ParseStore(s)) : s \in RawStores }

\* the calls of bark_send and the log rows of iteration ts
PushesAt(ts) == SelectSeq(pushes, LAMBDA p : p.ts = ts)
RowsAt(ts)   == SelectSeq(csv.rows, LAMBDA row : row.ts_utc = ts)

\* the records of res the for loop has gone through
Processed == 1..(IF i - 1 < Len(res) THEN i - 1 ELSE Len(res))

\* the for loop of the current iteration is over (or never began)
LoopOver == pc \in {"sleep", "top", "done"} \/ (pc = "detect" /\ i > Len(res))

\* bark_send was called for record k of res in the current iteration
PushedIdx(k) == \E n \in DOMAIN pushes : pushes[n].ts = cycle /\ pushes[n].idx = k

\* bark_send was called for location sid in the current iteration
PushedSid(sid) == \E n \in DOMAIN pushes : pushes[n].ts = cycle /\ pushes[n].sid = sid

\* the records of res that belong to location sid
RecordsOf(sid) == { k \in 1..Len(res) : Sid(res[k]) = sid }

\* the flag of record k's location at the time record k is processed: the
\* flag from before the iteration, unless an earlier record of the same
\* fetch result has the same identifier
FlagAt(k) ==
    LET earlier == { j \in 1..(k - 1) : Sid(res[j]) = Sid(res[k]) }
    IN  IF earlier = {} THEN FlagGet(flags0, Sid(res[k]))
        ELSE IsAvail(res[Max(earlier)])

(* ---- C1 ---------------------------------------------------------------- *)
\* C1 as claimed: once the for loop of an iteration is over, bark_send has
\* been called for a location in that iteration if and only if the location
\* has an available record in the fetch result and its flag before the
\* iteration was false or absent.
C1_PerLocation ==
    LoopOver =>
        \A sid \in AllSids :
            PushedSid(sid) <=>
                /\ \E k \in RecordsOf(sid) : IsAvail(res[k])
                /\ ~FlagGet(flags0, sid)

\* C1 as amended: bark_send is called for a record if and only if the record
\* is available and the flag of its location is false or absent when the
\* record is processed, at most once per record; for a location listed once
\* in the fetch result that flag is the one from before the iteration.
C1_PerRecord ==
    /\ \A k \in Processed : PushedIdx(k) <=> (IsAvail(res[k]) /\ ~FlagAt(k))
    /\ \A n \in DOMAIN pushes :
          pushes[n].ts = cycle =>
             /\ pushes[n].idx \in Processed
             /\ pushes[n].sid = Sid(res[pushes[n].idx])
             /\ \A m \in DOMAIN pushes :
                   (pushes[m].ts = cycle /\ pushes[m].idx = pushes[n].idx) => m = n
    /\ LoopOver =>
          \A sid \in AllSids :
             Cardinality(RecordsOf(sid)) = 1 =>
                (PushedSid(sid) <=>
                    /\ \E k \in RecordsOf(sid) : IsAvail(res[k])
                    /\ ~FlagGet(flags0, sid))

\* C1 witness: an iteration over two available records of two locations ends
\* with a call for the one whose flag was false and none for the one whose
\* flag was true
C1_Witness ==
    /\ LoopOver /\ Len(res) = 2
    /\ Sid(res[1]) # Sid(res[2])
    /\ IsAvail(res[1]) /\ IsAvail(res[2])
    /\ FlagGet(flags0, Sid(res[1])) /\ ~FlagGet(flags0, Sid(res[2]))
    /\ ~PushedIdx(1) /\ PushedIdx(2)

(* ---- C2 ---------------------------------------------------------------- *)
\* the timestamps of a sequence of pushes / of log rows
PushTimes(q) == [ k \in 1..Len(q) |-> q[k].ts ]
RowTimes(q)  == [ k \in 1..Len(q) |-> q[k].ts_utc ]

\* the pushes and the rows of iterations 1..n of this run
PushesUpTo(n) == SelectSeq(pushes, LAMBDA p : p.ts <= n)
RowsUpTo(n)   == SelectSeq(csv.rows, LAMBDA row : row.ts_utc >= 1 /\ row.ts_utc <= n)

\* iteration n is over and its outcome stands in the trail
Settled(n) == Len(trail) >= n /\ (cycle > n \/ pc \in {"sleep", "top", "done"})

FiveReadings == << << "unavailable" >>, << "available" >>, << "available" >>,
                   << "unavailable" >>, << "available" >> >>

\* C2: when the first five iterations succeed and show the one store as
\* unavailable, available, available, unavailable, available, then bark_send
\* has been called exactly twice in them, in iterations 2 and 5, and exactly
\* three rows have been appended, in iterations 2, 3 and 5, all for that store.
C2_FiveCycles ==
    (Settled(5) /\ SubSeq(trail, 1, 5) = FiveReadings) =>
        /\ PushTimes(PushesUpTo(5)) = << 2, 5 >>
        /\ RowTimes(RowsUpTo(5)) = << 2, 3, 5 >>
        /\ \A p \in Range(PushesUpTo(5)) : p.sid = "R764"
        /\ \A row \in Range(RowsUpTo(5)) : row.storeNumber = "R764"

\* C2 witness: the five iterations have run with these readings
C2_Witness ==
    /\ Settled(5) /\ SubSeq(trail, 1, 5) = FiveReadings
    /\ cycle = 5 /\ pc = "top"
    /\ Len(pushes) = 2

(* ---- C3 ---------------------------------------------------------------- *)
\* iterations 1..n all succeeded and showed the store as available
AvailableThrough(n) == \A j \in 1..n : trail[j] = << "available" >>

\* C3: last_flags is empty until the first iteration; when the store is shown
\* available in iteration 1 and in every iteration up to n, bark_send has been
\* called exactly once in iterations 1..n, in iteration 1.
C3_ColdStart ==
    /\ cycle = 0 => last_flags = << >>
    /\ \A n \in 1..Len(trail) :
          (Settled(n) /\ AvailableThrough(n)) =>
              /\ PushTimes(PushesUpTo(n)) = << 1 >>
              /\ PushesUpTo(n)[1].sid = "R764"

\* C3 witness: three iterations in a row showed the store available
C3_Witness ==
    /\ Settled(3) /\ AvailableThrough(3)
    /\ cycle = 3 /\ pc = "top"
    /\ Len(pushes) = 1

(* ---- C4 ---------------------------------------------------------------- *)
WarnLines == { "[WARN] HTTP error", "[WARN] Network exception",
               "[WARN] Unknown exception", "[ERROR] JSON parse failed",
               "[WARN] Bark push failed HTTP", "[WARN] Bark returned non-OK payload",
               "[WARN] Bark push exception" }

\* the warning and error lines among the lines q
Warnings(q) == SelectSeq(q, LAMBDA line : line \in WarnLines)

\* raise_for_status raised in the current iteration
HttpFailed == "[WARN] HTTP error" \in Range(console)

\* C4: an iteration whose fetch ends in an HTTP error status prints that one
\* warning, appends no row, calls bark_send not at all, leaves the flags as
\* they were, and goes through the usual sleep back to the loop test; the
\* process does not end unless the stop flag is set.
C4_HttpError ==
    HttpFailed =>
        /\ pc \in {"sleep", "top", "done"}
        /\ Warnings(console) = << "[WARN] HTTP error" >>
        /\ RowsAt(cycle) = << >>
        /\ PushesAt(cycle) = << >>
        /\ last_flags = flags0
        /\ pc = "sleep" => (sleeps = cycle - 1 /\ slept = 0)
        /\ pc \in {"top", "done"} => (sleeps = cycle /\ slept \in Delays)
        /\ pc = "done" => stop

\* C4 witness: after such an iteration the loop is back at its test, the stop
\* flag clear and the sleep done
C4_Witness ==
    /\ HttpFailed /\ pc = "top" /\ ~stop
    /\ cycle = 1 /\ sleeps = 1 /\ slept = POLL_INTERVAL_MAX

(* ---- C5 ---------------------------------------------------------------- *)
\* append_log or fetch_availability raised in the current iteration
IterationRaised == trail # << >> /\ trail[Len(trail)] = Raised

\* append_log returned in the current iteration
Appended == pc \in {"sleep", "top", "done"} /\ cycle >= 1 /\ ~IterationRaised

\* the rows an iteration at time ts owes the log for the fetch result rs
ExpectedRows(rs, ts) ==
    LET av == SelectSeq(rs, LAMBDA r : r.pickupDisplay = "available")
    IN  [ k \in 1..Len(av) |-> LogRow(ts, av[k]) ]

\* the pushes of the current iteration that were not delivered
FailedNow == { n \in DOMAIN pushes : pushes[n].ts = cycle /\ ~pushes[n].delivered }

\* C5: when a push of the current iteration fails, one warning is printed
\* for it and nothing else happens: the for loop goes through every record
\* of the fetch result, the record is pushed once only, and append_log, when
\* it returns, has appended the row of every available record.
C5_PushFailure ==
    \A n \in FailedNow :
        /\ pc \in {"sleep", "top", "done"} => i = Len(res) + 1
        /\ LoopOver => \A k \in 1..Len(res) :
                          FlagGet(last_flags, Sid(res[k])) = IsAvail(res[Max(RecordsOf(Sid(res[k])))])
        /\ Cardinality({ m \in DOMAIN pushes :
                            pushes[m].ts = cycle /\ pushes[m].idx = pushes[n].idx }) = 1
        /\ Len(SelectSeq(console, LAMBDA line : line \in
                  { "[WARN] Bark push failed HTTP", "[WARN] Bark returned non-OK payload",
                    "[WARN] Bark push exception" })) = Cardinality(FailedNow)
        /\ "[WARN] Network exception" \notin Range(console)
        /\ Appended => RowsAt(cycle) = ExpectedRows(res, cycle)

\* C5 witness: the push for the first of two available records failed, the
\* second record was pushed all the same, and both rows are in the log
C5_Witness ==
    /\ pc = "sleep" /\ Len(res) = 2
    /\ \E n \in FailedNow : pushes[n].idx = 1
    /\ PushedIdx(2)
    /\ Len(RowsAt(cycle)) = 2

(* ---- C6 ---------------------------------------------------------------- *)
\* records k1 and k2 are the only records of two different locations, both
\* available now and neither flagged before the iteration
BothNew(k1, k2) ==
    /\ k1 < k2
    /\ RecordsOf(Sid(res[k1])) = {k1} /\ RecordsOf(Sid(res[k2])) = {k2}
    /\ IsAvail(res[k1]) /\ IsAvail(res[k2])
    /\ ~FlagGet(flags0, Sid(res[k1])) /\ ~FlagGet(flags0, Sid(res[k2]))

\* C6: when two locations are newly available in one iteration, bark_send has
\* been called once for each by the end of the for loop, for the earlier
\* record first, and append_log appends one row for each, the earlier
\* record's row first; with no other record in the fetch result these are
\* the only two calls and the only two rows of the iteration.
C6_TwoNew ==
    \A k1, k2 \in 1..Len(res) :
        (LoopOver /\ BothNew(k1, k2)) =>
            LET ps == PushesAt(cycle)
                rs == RowsAt(cycle)
            IN  /\ \E n1, n2 \in DOMAIN ps :
                      /\ n1 < n2
                      /\ ps[n1].idx = k1 /\ ps[n1].title = res[k1].storeName
                      /\ ps[n2].idx = k2 /\ ps[n2].title = res[k2].storeName
                /\ Cardinality({ n \in DOMAIN ps : ps[n].idx \in {k1, k2} }) = 2
                /\ Len(res) = 2 => Len(ps) = 2
                /\ Appended =>
                      /\ \E m1, m2 \in DOMAIN rs :
                            /\ m1 < m2
                            /\ rs[m1] = LogRow(cycle, res[k1])
                            /\ rs[m2] = LogRow(cycle, res[k2])
                      /\ Len(res) = 2 => Len(rs) = 2

\* C6 witness: in the second iteration two stores flagged false by the first
\* are both available, and both calls and both rows have been made
C6_Witness ==
    /\ pc = "sleep" /\ Appended /\ cycle = 2 /\ Len(res) = 2
    /\ BothNew(1, 2)
    /\ DOMAIN flags0 = { Sid(res[1]), Sid(res[2]) }
    /\ Len(PushesAt(cycle)) = 2 /\ Len(RowsAt(cycle)) = 2

(* ---- C7 ---------------------------------------------------------------- *)
\* C7: main() has ended only if the stop flag is set; an iteration that
\* raised has led to the sleep and the loop test, never to the end of main()
\* with the flag clear, and at the loop test with the flag clear the next
\* iteration can begin.
C7_NeverFatal ==
    /\ pc = "done" => stop
    /\ \A n \in 1..Len(trail) :
          trail[n] = Raised =>
             \/ n < cycle
             \/ pc \in {"sleep", "top"}
             \/ pc = "done" /\ stop
    /\ (IterationRaised /\ pc = "top" /\ ~stop /\ cycle < MaxCyclesOne)
          => ENABLED LoopEnter(MaxCyclesOne, TRUE)

\* C7 witness: the first iteration raised and the second one is running
C7_Witness ==
    /\ Len(trail) = 2 /\ trail[1] = Raised
    /\ cycle = 2 /\ pc = "detect" /\ ~stop

(* ---- C8 ---------------------------------------------------------------- *)
\* C8: main() ends only from the loop test with the flag set, and then the
\* last iteration is complete: records all processed and rows appended
\* unless it raised, and its sleep done; with the flag set in the middle of
\* an iteration every step still leads where it leads with the flag clear;
\* a fetch begins only from the loop test with the flag clear.
C8_Graceful ==
    [][ /\ pc' = "done" =>
              /\ pc = "top" /\ stop
              /\ cycle >= 1 =>
                    /\ sleeps = cycle /\ slept \in Delays
                    /\ IterationRaised \/
                          (i = Len(res) + 1 /\ RowsAt(cycle) = ExpectedRows(res, cycle))
        /\ (pc' = "fetch" /\ pc # "fetch") => (pc = "top" /\ ~stop)
        /\ (stop /\ pc = "fetch") => pc' \in {"fetch", "detect", "sleep"}
        /\ (stop /\ pc = "detect") =>
              /\ pc' \in {"detect", "sleep"}
              /\ pc' = "sleep" => i = Len(res) + 1
        /\ (stop /\ pc = "sleep") =>
              \/ pc' = "sleep" /\ sleeps' = sleeps
              \/ pc' = "top" /\ sleeps' = sleeps + 1 /\ slept' \in Delays
      ]_vars

\* C8 witness: the flag was set during iteration 1 (the iteration began with
\* it clear), and the iteration has gone on to process both records and to
\* append their rows
C8_Witness ==
    /\ stop /\ cycle = 1 /\ pc = "sleep"
    /\ Len(res) = 2 /\ i = 3
    /\ Len(RowsAt(1)) = 2

(* ---- C9 ---------------------------------------------------------------- *)
\* C9: once the stop flag is set main() ends, after printing the log
\* location; main() never ends with the flag clear.
C9_Stops ==
    /\ stop ~> (pc = "done")
    /\ [](pc = "done" => (stop /\ console[Len(console)] = "Exit. CSV log at"))

\* C9 witness: main() has ended after an iteration
C9_Witness == pc = "done" /\ cycle >= 1 /\ stop

(* ---- C10 --------------------------------------------------------------- *)
IsPrefix(p, q) == Len(p) <= Len(q) /\ SubSeq(q, 1, Len(p)) = p

\* C10: every step keeps the rows the log holds and the one header line; a
\* return of append_log adds the row of each available record of the fetch
\* result, in order, and nothing when there is none; no other step changes
\* the rows.
C10_AppendOnly ==
    [][ /\ IsPrefix(csv.rows, csv'.rows)
        /\ csv.exists => (csv'.exists /\ csv'.headers = csv.headers)
        /\ IF pc = "detect" /\ pc' = "sleep" /\ ~IterationRaised'
           THEN csv'.rows = csv.rows \o ExpectedRows(res, cycle)
           ELSE csv'.rows = csv.rows
      ]_vars

\* C10 witness: the second iteration has appended to the rows of the first a
\* row for a store that was already flagged available
C10_Witness ==
    /\ pc = "sleep" /\ cycle = 2 /\ Appended
    /\ RowsAt(1) # << >> /\ RowsAt(2) # << >>
    /\ \E k \in 1..Len(res) : IsAvail(res[k]) /\ FlagGet(flags0, Sid(res[k])) /\ ~PushedIdx(k)

(* ---- C11 --------------------------------------------------------------- *)
\* C11: ensure_log() writes the header-only file when there is no log file
\* and leaves an existing file as it is, rows and header line; applied a
\* second time, at start or to the log as it stands at any later moment, it
\* changes nothing, so the log never has two header lines.
C11_Idempotent ==
    [][ /\ (pc = "ensure" /\ pc' = "top") =>
              /\ csv.exists => csv' = csv
              /\ ~csv.exists => csv' = [exists |-> TRUE, headers |-> 1, rows |-> << >>]
              /\ Ensured(csv') = csv'
        /\ Ensured(Ensured(csv)) = Ensured(csv)
        /\ Ensured(csv').rows = csv'.rows
        /\ Ensured(csv').headers <= 1
        /\ pc # "ensure" => (csv.exists /\ Ensured(csv') = csv')
      ]_vars

\* C11 witness: ensure_log() has run on a log that held a row, and the row
\* and the one header line are still there
C11_Witness ==
    /\ pc = "top" /\ cycle = 0
    /\ csv = [exists |-> TRUE, headers |-> 1, rows |-> << OldRow >>]
    /\ Ensured(csv) = csv

(* ---- C12 --------------------------------------------------------------- *)
BarkWarnLines == { "[WARN] Bark push failed HTTP", "[WARN] Bark returned non-OK payload",
                   "[WARN] Bark push exception" }

\* the lines of q that belong to the set L
LinesIn(q, L) == SelectSeq(q, LAMBDA line : line \in L)

LastProcessedOf(k) == Max({ j \in Processed : Sid(res[j]) = Sid(res[k]) })

\* C13: fetch_availability returns for every payload, with pickupDisplay None
\* for a store that carries no partsAvailability entry of the SKU; a record
\* whose pickupDisplay is not "available" (None or another string) gets no
\* call of bark_send and no row, in avail_rows or in the log, and the flag
\* of its location is false once it is processed (until a later record of
\* the same identifier is); a location flagged false in this way is notified
\* when a later iteration shows it available.
C13_Binary ==
    /\ pc = "fetch" =>
          \A raw \in AnyPayloads :
             /\ ENABLED FetchOK(raw)
             /\ Len(ParsePayload(raw)) = Len(raw)
             /\ \A k \in 1..Len(raw) :
                   /\ raw[k].pa = "missing" => ParsePayload(raw)[k].pickupDisplay = None
                   /\ raw[k].pa # "missing" => ParsePayload(raw)[k].pickupDisplay = raw[k].pa
    /\ \A k \in Processed :
          res[k].pickupDisplay # "available" =>
             /\ ~PushedIdx(k)
             /\ LastProcessedOf(k) = k =>
                   (Sid(res[k]) \in DOMAIN last_flags /\ last_flags[Sid(res[k])] = FALSE)
    /\ pc \in {"fetch", "detect"} =>
          avail_rows = ExpectedRows(SubSeq(res, 1, Max(Processed \cup {0})), cycle)
    /\ \A row \in Range(csv.rows) : row.pickupDisplay = "available"
    /\ Appended => Len(RowsAt(cycle)) = Cardinality({ k \in 1..Len(res) : res[k].pickupDisplay = "available" })
    /\ \A k \in Processed :
          ( /\ res[k].pickupDisplay = "available"
            /\ Sid(res[k]) \in DOMAIN flags0 /\ ~flags0[Sid(res[k])]
            /\ \A j \in 1..(k - 1) : Sid(res[j]) # Sid(res[k]) ) => PushedIdx(k)

\* C13 witness: an iteration went through a store without the sub-object and
\* a store with another status; neither was pushed or logged and both are
\* flagged false
C13_Witness ==
    /\ pc = "sleep" /\ Appended /\ Len(res) = 2
    /\ res[1].pickupDisplay = None /\ res[2].pickupDisplay = "ineligible"
    /\ Sid(res[1]) # Sid(res[2])
    /\ PushesAt(cycle) = << >> /\ RowsAt(cycle) = << >>
    /\ last_flags[Sid(res[1])] = FALSE /\ last_flags[Sid(res[2])] = FALSE

(* ---- C14 --------------------------------------------------------------- *)
\* the category lines the except clauses of main() have printed in the
\* current iteration
Categories == LinesIn(console, { "[WARN] HTTP error", "[WARN] Network exception",
                                 "[WARN] Unknown exception" })

\* C14 as claimed: the except clauses of main() put an error status of the
\* fetch under "HTTP error", a transport failure under "Network exception"
\* and a body that is no JSON under a third category, neither of these two;
\* after each of them the loop goes on to its sleep and test, and main()
\* ends only with the stop flag set.
C14_Distinct ==
    /\ raised = "http" => Categories = << "[WARN] HTTP error" >>
    /\ raised = "transport" => Categories = << "[WARN] Network exception" >>
    /\ raised = "json" =>
          /\ Len(Categories) = 1
          /\ Categories[1] \notin { "[WARN] HTTP error", "[WARN] Network exception" }
    /\ raised \in {"http", "transport", "json"} =>
          /\ pc \in {"sleep", "top", "done"}
          /\ pc = "done" => stop

(* ---- C15 --------------------------------------------------------------- *)
\* the calls of bark_send of the current iteration whose POST failed
FailedSends == { n \in DOMAIN pushes :
                   pushes[n].ts = cycle /\ pushes[n].endpoint # "" /\ ~pushes[n].delivered }

\* C15 as claimed: a failed fetch (error status, transport failure, body
\* that is no JSON) has printed exactly one warning or error line, and the
\* failed sends of an iteration one warning line each.
C15_Single ==
    /\ raised \in {"http", "transport", "json"} => Len(Warnings(console)) = 1
    /\ Len(LinesIn(console, BarkWarnLines)) = Cardinality(FailedSends)

\* C15 as amended: every exception caught by main() has printed exactly one
\* "[WARN]" line of main(), and every failed send exactly one "[WARN]" line
\* of bark_send; a body that is no JSON has in addition at most one
\* "[ERROR] JSON parse failed" line of fetch_availability before it, so one
\* or two lines in all; no other warning or error line is printed.
C15_OneWarn ==
    /\ raised = "" =>
          (Categories = << >> /\ Len(Warnings(console)) = Cardinality(FailedSends))
    /\ raised \in {"http", "transport", "shape"} =>
          (Len(Categories) = 1 /\ Len(Warnings(console)) = 1)
    /\ raised = "json" =>
          /\ Len(Categories) = 1
          /\ Len(Warnings(console)) \in {1, 2}
          /\ Len(Warnings(console)) = 2 => Warnings(console)[1] = "[ERROR] JSON parse failed"
    /\ raised = "append" =>
          (Len(Categories) = 1 /\ Len(Warnings(console)) = 1 + Cardinality(FailedSends))
    /\ Len(LinesIn(console, BarkWarnLines)) = Cardinality(FailedSends)

\* C15 witness: a body that is no JSON has led to the "[ERROR]" line of
\* fetch_availability and the "[WARN]" line of main(), and the loop is back
\* at its test
C15_Witness ==
    /\ raised = "json" /\ pc = "top"
    /\ Len(Warnings(console)) = 2
    /\ console[Len(console)] = "[WARN] Network exception"

(* ---- C16 --------------------------------------------------------------- *)
\* record j of iteration c was read as not available
SeenUnavailable(c, j) ==
    /\ c \in 1..Len(trail) /\ trail[c] # Raised
    /\ j \in 1..Len(trail[c]) /\ trail[c][j] # "available"

\* record (c1, j1) comes before record (c2, j2) in the run
Before(c1, j1, c2, j2) == c1 < c2 \/ (c1 = c2 /\ j1 < j2)

\* between any two calls of bark_send for one location, the earlier one
\* delivered or not, a record of that location was read as not available
NoRepeatWhileAvailable ==
    \A n, m \in DOMAIN pushes :
        (n < m /\ pushes[n].sid = pushes[m].sid) =>
            \E c \in pushes[n].ts..pushes[m].ts : \E j \in 1..MaxStoresHist :
                /\ SeenUnavailable(c, j)
                /\ Before(pushes[n].ts, pushes[n].idx, c, j)
                /\ Before(c, j, pushes[m].ts, pushes[m].idx)

\* C16 as claimed: when the for loop of an iteration is over, the flag of
\* the location of every record of the fetch result equals that record's
\* availability, pushed or not, delivered or not; and a location is not
\* pushed again, after a delivery that failed or not, unless it was read as
\* not available in between.
C16_FlagIsReading ==
    /\ LoopOver =>
          \A k \in 1..Len(res) :
             /\ Sid(res[k]) \in DOMAIN last_flags
             /\ last_flags[Sid(res[k])] = IsAvail(res[k])
    /\ NoRepeatWhileAvailable

\* C16 as amended: the flag of the location equals the availability of the
\* last record the fetch result holds for it (of its only record when it is
\* listed once); the rest as claimed.
C16_FlagIsLastReading ==
    /\ LoopOver =>
          \A k \in 1..Len(res) :
             /\ Sid(res[k]) \in DOMAIN last_flags
             /\ last_flags[Sid(res[k])] = IsAvail(res[Max(RecordsOf(Sid(res[k])))])
    /\ \A k \in Processed :
          LastProcessedOf(k) = k => last_flags[Sid(res[k])] = IsAvail(res[k])
    /\ NoRepeatWhileAvailable

\* C16 witness: the push of iteration 1 was not delivered, the flag was set
\* all the same, and iteration 2, which showed the store available again,
\* has pushed nothing
C16_Witness ==
    /\ cycle = 2 /\ pc = "sleep"
    /\ trail = << << "available" >>, << "available" >> >>
    /\ Len(pushes) = 1
    /\ pushes[1].ts = 1 /\ ~pushes[1].delivered
    /\ flags0["R764"] /\ last_flags["R764"]

(* ---- C17 --------------------------------------------------------------- *)
\* the log holds a row of iteration a for location sid: the iteration showed
\* it available
LoggedAt(a, sid) == \E row \in Range(csv.rows) : row.ts_utc = a /\ Sid(row) = sid

\* every iteration after a and before the current one raised at its fetch
\* or fetched no store
NothingSince(a) == \A c \in (a + 1)..(cycle - 1) : trail[c] = Raised \/ trail[c] = << >>

\* C17: an iteration whose fetch raised has left last_flags as it was when
\* the iteration began, added no row to the log and called bark_send not at
\* all; so a location shown available by an iteration, with only failed
\* fetches (or empty results) since, is not pushed when the current
\* iteration shows it available (in each of its records so far); and a
\* location with no record among those processed in the current iteration
\* has the flag it had before.
C17_FailedFetchFrame ==
    /\ raised \in FetchErrors =>
          /\ last_flags = flags0
          /\ csv.rows = RowsUpTo(cycle - 1)
          /\ PushesAt(cycle) = << >>
    /\ \A k \in Processed : \A a \in 1..(cycle - 1) :
          ( /\ \A j \in 1..k : Sid(res[j]) = Sid(res[k]) => IsAvail(res[j])
            /\ LoggedAt(a, Sid(res[k])) /\ NothingSince(a) )
              => ~PushedIdx(k)
    /\ DOMAIN last_flags = DOMAIN flags0 \cup { Sid(res[k]) : k \in Processed }
    /\ \A sid \in DOMAIN flags0 :
          (\A k \in Processed : Sid(res[k]) # sid) => last_flags[sid] = flags0[sid]

\* C17 witness: iteration 1 pushed for a store, the fetch of iteration 2
\* raised, and iteration 3 shows that store available again without a push
\* while the other store, absent from the result, keeps its flag
C17_Witness ==
    /\ cycle = 3 /\ pc = "sleep" /\ trail[2] = Raised
    /\ Len(res) = 1 /\ IsAvail(res[1]) /\ LoggedAt(1, Sid(res[1]))
    /\ PushTimes(pushes) = << 1 >> /\ pushes[1].sid = Sid(res[1])
    /\ Cardinality(DOMAIN last_flags) = 2
    /\ \A sid \in DOMAIN last_flags : sid # Sid(res[1]) => last_flags[sid] = FALSE

(* ---- C18 --------------------------------------------------------------- *)
\* the calls of time.sleep that have returned when main() is at position p
\* of iteration c: one per iteration that is over
SleepsDue(p, c) ==
    IF p = "ensure" THEN 0
    ELSE IF p \in {"top", "done"} THEN c
    ELSE c - 1

\* C18: a fetch is issued only from the loop test, once per iteration, and
\* returns or raises once, with no second fetch before the sleep; every
\* iteration, whether it raised or not, ends with one call of time.sleep of
\* a length within [POLL_INTERVAL_MIN, POLL_INTERVAL_MAX], so exactly one
\* sleep lies between two consecutive fetches.
C18_OneSleep ==
    [][ /\ sleeps = SleepsDue(pc, cycle) /\ sleeps' = SleepsDue(pc', cycle')
        /\ (pc' = "fetch" /\ pc # "fetch") =>
              (pc = "top" /\ cycle' = cycle + 1 /\ sleeps' = sleeps /\ sleeps = cycle)
        /\ pc = "fetch" => (pc' \in {"fetch", "detect", "sleep"} /\ cycle' = cycle)
        /\ pc = "detect" => (pc' \in {"detect", "sleep"} /\ cycle' = cycle)
        /\ (raised' # "" /\ raised = "") => (pc' = "sleep" /\ sleeps' = sleeps)
        /\ pc = "sleep" => (pc' \in {"sleep", "top"} /\ cycle' = cycle)
        /\ sleeps' # sleeps =>
              /\ pc = "sleep" /\ pc' = "top" /\ sleeps' = sleeps + 1
              /\ slept' >= POLL_INTERVAL_MIN /\ slept' <= POLL_INTERVAL_MAX
      ]_vars

\* C18 witness: two iterations are over, the second after a fetch that
\* raised, and two sleeps have been made
C18_Witness ==
    /\ pc = "top" /\ cycle = 2 /\ sleeps = 2
    /\ raised = "transport" /\ slept = POLL_INTERVAL_MIN

(* ---- C19 --------------------------------------------------------------- *)
\* the log holds a row of the current iteration for location sid
RowNow(sid) == \E n \in DOMAIN csv.rows :
                  csv.rows[n].ts_utc = cycle /\ Sid(csv.rows[n]) = sid

\* C19 as claimed: no row of an iteration is written before its for loop is
\* over; and once the iteration is over (main() at the sleep or beyond),
\* every location bark_send was called for in it, and every location of the
\* fetch result whose flag is now true, has a row of this iteration in the
\* log.
C19_RowForPush ==
    /\ (pc \in {"fetch", "detect"} /\ cycle >= 1) => RowsAt(cycle) = << >>
    /\ pc \in {"sleep", "top", "done"} =>
          /\ \A n \in DOMAIN pushes : pushes[n].ts = cycle => RowNow(pushes[n].sid)
          /\ \A k \in 1..Len(res) :
                FlagGet(last_flags, Sid(res[k])) => RowNow(Sid(res[k]))

(* ---- C20 --------------------------------------------------------------- *)
\* the calls of bark_send of the current iteration for location sid
PushesFor(sid) == { n \in DOMAIN pushes : pushes[n].ts = cycle /\ pushes[n].sid = sid }

\* the processed records of location sid at which its flag changed: the
\* first one when the dict had no flag for it, and every one whose
\* availability differs from the flag as it stood
Mutations(sid) ==
    { k \in Processed :
        /\ Sid(res[k]) = sid
        /\ \/ (sid \notin DOMAIN flags0 /\ \A j \in 1..(k - 1) : Sid(res[j]) # sid)
           \/ FlagAt(k) # IsAvail(res[k]) }

\* the flag of location sid differs between two dicts
FlagDiffers(f, g, sid) ==
    \/ (sid \in DOMAIN f) # (sid \in DOMAIN g)
    \/ (sid \in DOMAIN f /\ sid \in DOMAIN g /\ f[sid] # g[sid])

\* C20 as claimed: in an iteration bark_send is called at most once for a
\* location identifier and the flag of the location changes at most once,
\* whatever the fetch result.
C20_OncePerLocation ==
    \A sid \in AllSids :
        /\ Cardinality(PushesFor(sid)) <= 1
        /\ Cardinality(Mutations(sid)) <= 1

\* C20 as amended: bark_send is called at most once and the flag written
\* once for each record of the fetch result: a step changes no flag but
\* that of the record the for loop is at, bark_send is called for no other
\* record, and a location has at most as many calls as it has available
\* records; so a location listed once is pushed at most once and its flag
\* changes at most once in an iteration.
C20_OncePerRecord ==
    [][ /\ \A sid \in AllSids :
              FlagDiffers(last_flags, last_flags', sid) =>
                 /\ pc = "detect" /\ i <= Len(res) /\ i' = i + 1
                 /\ sid = Sid(res[i])
                 /\ last_flags'[sid] = IsAvail(res[i])
        /\ Len(pushes') > Len(pushes) =>
              /\ pc = "detect" /\ i <= Len(res) /\ i' = i + 1
              /\ Len(pushes') = Len(pushes) + 1
              /\ pushes'[Len(pushes')].idx = i
              /\ pushes'[Len(pushes')].sid = Sid(res[i])
        /\ \A sid \in AllSids :
              /\ Cardinality(PushesFor(sid)') <=
                    Cardinality({ k \in Processed' : Sid(res'[k]) = sid /\ IsAvail(res'[k]) })
              /\ Cardinality(RecordsOf(sid)') <= 1 =>
                    /\ Cardinality(PushesFor(sid)') <= 1
                    /\ Cardinality(Mutations(sid)') <= 1
      ]_vars

\* C20 witness: a fetch result listed the store three times, available,
\* unavailable, available; bark_send was called for the first and the third
\* record and the flag changed three times
C20_Witness ==
    /\ pc = "sleep" /\ Len(res) = 3
    /\ Seen(res) = << "available", "unavailable", "available" >>
    /\ Cardinality(PushesFor("R764")) = 2
    /\ PushedIdx(1) /\ PushedIdx(3)
    /\ Cardinality(Mutations("R764")) = 3

====
